---- MODULE Spec2Model ----
(***************************************************************************)
(* Streaming slide generator (frontend/src/pages/SignIn.tsx, component     *)
(* GeneratePresentation) and the presentation viewer                       *)
(* (frontend/src/pages/PresentationView.tsx).                              *)
(*                                                                         *)
(* Text is a sequence of code points, a chunk is a sequence of bytes       *)
(* (0..255).  Text literals are written with Str(<<"a", "b">>).            *)
(***************************************************************************)
EXTENDS Integers, Sequences, FiniteSets, TLC

(***************************************************************************)
(* Bounds of the model.                                                    *)
(***************************************************************************)
\* Records the producer sends in one response.
MaxRecords == 2
\* Bytes of a chunk that is not the whole rest of the response.
MaxChunk == 2
\* Runs of handleSubmit in flight at once.
MaxRuns == 2
\* GETs of one stored presentation in flight at once.
MaxSelects == 1
\* Blocks of the stored content the viewer is given.
MaxBlocks == 2
\* Key events one registered listener of the viewer handles.
MaxKeys == 2
\* The largest index the normalizer is applied at on its own.
MaxOrdinal == 4

(***************************************************************************)
(* Characters.                                                             *)
(***************************************************************************)
Ord(c) ==
    CASE c = "\n" -> 10  [] c = " "  -> 32  [] c = "\"" -> 34 [] c = "*" -> 42
      [] c = ","  -> 44  [] c = "-"  -> 45  [] c = "1"  -> 49 [] c = "2" -> 50
      [] c = ":"  -> 58  [] c = "A"  -> 65  [] c = "B"  -> 66 [] c = "D" -> 68
      [] c = "E"  -> 69  [] c = "I"  -> 73  [] c = "L"  -> 76 [] c = "O" -> 79
      [] c = "P"  -> 80  [] c = "R"  -> 82  [] c = "S"  -> 83 [] c = "T" -> 84
      [] c = "\\" -> 92  [] c = "_"  -> 95  [] c = "a"  -> 97 [] c = "b" -> 98
      [] c = "c"  -> 99  [] c = "d"  -> 100 [] c = "e" -> 101 [] c = "f" -> 102
      [] c = "i"  -> 105 [] c = "l"  -> 108 [] c = "n" -> 110 [] c = "o" -> 111
      [] c = "r"  -> 114 [] c = "s"  -> 115 [] c = "t" -> 116 [] c = "u" -> 117
      [] c = "x"  -> 120 [] c = "{"  -> 123 [] c = "}" -> 125
      [] c = "BULLET" -> 8226

Str(cs) == [i \in 1..Len(cs) |-> Ord(cs[i])]

(***************************************************************************)
(* String primitives of the JavaScript runtime, as the code uses them.     *)
(***************************************************************************)
\* White space removed by String.prototype.trim and matched by \s.
isWhiteSpace(c) ==
    c \in {9, 10, 11, 12, 13, 32, 160, 5760, 8232, 8233, 8239, 8287, 12288, 65279}
        \cup (8192..8202)

Min(S) == CHOOSE i \in S : \A j \in S : i <= j

Max(S) == CHOOSE i \in S : \A j \in S : i >= j

inked(s) == {i \in 1..Len(s) : ~isWhiteSpace(s[i])}

trimStart(s) == IF inked(s) = {} THEN <<>> ELSE SubSeq(s, Min(inked(s)), Len(s))

trimEnd(s) == IF inked(s) = {} THEN <<>> ELSE SubSeq(s, 1, Max(inked(s)))

trim(s) == IF inked(s) = {} THEN <<>> ELSE SubSeq(s, Min(inked(s)), Max(inked(s)))

startsWith(s, p) == Len(s) >= Len(p) /\ SubSeq(s, 1, Len(p)) = p

endsWith(s, p) == Len(s) >= Len(p) /\ SubSeq(s, Len(s) - Len(p) + 1, Len(s)) = p

\* The positions from `from` on where sep occurs in s.
matches(s, sep, from) ==
    {i \in from..(Len(s) - Len(sep) + 1) : SubSeq(s, i, i + Len(sep) - 1) = sep}

\* s.split(sep) for a non-empty separator: leftmost, non-overlapping matches.
RECURSIVE splitFrom(_, _, _)
splitFrom(s, sep, from) ==
    LET found == matches(s, sep, from)
    IN  IF found = {} THEN <<SubSeq(s, from, Len(s))>>
        ELSE LET at == Min(found)
             IN  <<SubSeq(s, from, at - 1)>> \o splitFrom(s, sep, at + Len(sep))

split(s, sep) == splitFrom(s, sep, 1)

RECURSIVE join(_, _)
join(parts, sep) ==
    IF parts = <<>> THEN <<>>
    ELSE IF Len(parts) = 1 THEN parts[1]
    ELSE parts[1] \o sep \o join(Tail(parts), sep)

\* Canonicalisation of the /i flag on the ASCII letters.
toLowerAscii(c) == IF c >= 65 /\ c <= 90 THEN c + 32 ELSE c

lowerAscii(s) == [i \in 1..Len(s) |-> toLowerAscii(s[i])]

\* Number-to-string conversion of a template literal, for n >= 0.
RECURSIVE digits(_)
digits(n) == IF n < 10 THEN <<48 + n>> ELSE digits(n \div 10) \o <<48 + (n % 10)>>

(***************************************************************************)
(* TextDecoder("utf-8"), decode(value, {stream: true})  (SignIn.tsx:770,   *)
(* 777).  The decoder object keeps the bytes of an unfinished character    *)
(* between calls; a byte that cannot continue the character yields U+FFFD  *)
(* and is looked at again as a first byte.                                 *)
(***************************************************************************)
newDecoder == [cp |-> 0, needed |-> 0, seen |-> 0, lo |-> 128, hi |-> 191, bom |-> FALSE]

resetDecoder(d) == [d EXCEPT !.cp = 0, !.needed = 0, !.seen = 0, !.lo = 128, !.hi = 191]

\* Emitting a code point: the first one of the stream is dropped when it is
\* the byte order mark.
emit(st, c) ==
    [d |-> [st.d EXCEPT !.bom = TRUE],
     out |-> IF ~st.d.bom /\ c = 65279 THEN st.out ELSE Append(st.out, c)]

firstByte(st, b) ==
    IF b <= 127 THEN emit(st, b)
    ELSE IF b >= 194 /\ b <= 223
         THEN [st EXCEPT !.d.needed = 1, !.d.cp = b % 32]
    ELSE IF b >= 224 /\ b <= 239
         THEN [st EXCEPT !.d.needed = 2, !.d.cp = b % 16,
                         !.d.lo = IF b = 224 THEN 160 ELSE 128,
                         !.d.hi = IF b = 237 THEN 159 ELSE 191]
    ELSE IF b >= 240 /\ b <= 244
         THEN [st EXCEPT !.d.needed = 3, !.d.cp = b % 8,
                         !.d.lo = IF b = 240 THEN 144 ELSE 128,
                         !.d.hi = IF b = 244 THEN 143 ELSE 191]
    ELSE emit(st, 65533)

decodeByte(st, b) ==
    IF st.d.needed = 0 THEN firstByte(st, b)
    ELSE IF b < st.d.lo \/ b > st.d.hi
         THEN firstByte(emit([st EXCEPT !.d = resetDecoder(st.d)], 65533), b)
    ELSE LET cp == st.d.cp * 64 + (b % 64)
         IN  IF st.d.seen + 1 = st.d.needed
             THEN emit([st EXCEPT !.d = resetDecoder(st.d)], cp)
             ELSE [st EXCEPT !.d.cp = cp, !.d.seen = st.d.seen + 1,
                             !.d.lo = 128, !.d.hi = 191]

\* The bytes from..to of the chunk, in order.
RECURSIVE decodeBytes(_, _, _, _)
decodeBytes(st, bytes, from, to) ==
    IF from > to THEN st
    ELSE IF from = to THEN decodeByte(st, bytes[from])
    ELSE LET mid == (from + to) \div 2
             half == decodeBytes(st, bytes, from, mid)
         IN  IF half.d.needed \in 0..3 THEN decodeBytes(half, bytes, mid + 1, to)
             ELSE half

\* decoder.decode(value) without {stream: true}: every chunk is decoded on its
\* own and an unfinished character at its end becomes U+FFFD.
decodeEach(d, value) ==
    LET st == decodeBytes([d |-> [newDecoder EXCEPT !.bom = d.bom], out |-> <<>>], value,
                          1, Len(value))
    IN  IF st.d.needed > 0
        THEN [d |-> resetDecoder(st.d), out |-> Append(st.out, 65533)]
        ELSE st

\* decoder.decode(value, {stream: true}): the text of the chunk and the
\* decoder as the call leaves it.
decode(d, value) == decodeBytes([d |-> d, out |-> <<>>], value, 1, Len(value))

(***************************************************************************)
(* JSON.parse (SignIn.tsx:786) on the documents a record can hold here: a  *)
(* string, null, true, false, or an object whose members are such values.  *)
(* Numbers, arrays and nested objects do not occur in the streams of the   *)
(* model.  A value is [t, s, b]: t is its type, s its text, b its truth.   *)
(***************************************************************************)
undefined == [t |-> "undefined", s |-> <<>>, b |-> FALSE]

jsNull == [t |-> "null", s |-> <<>>, b |-> FALSE]

jsString(s) == [t |-> "string", s |-> s, b |-> FALSE]

jsBoolean(b) == [t |-> "boolean", s |-> <<>>, b |-> b]

jsObject == [t |-> "object", s |-> <<>>, b |-> FALSE]

SyntaxError == [ok |-> FALSE, v |-> undefined, content |-> undefined, next |-> 0]

isJsonSpace(c) == c \in {9, 10, 13, 32}

RECURSIVE skipSpace(_, _)
skipSpace(s, i) ==
    IF i <= Len(s) /\ isJsonSpace(s[i]) THEN skipSpace(s, i + 1) ELSE i

hexValue(c) ==
    IF c >= 48 /\ c <= 57 THEN c - 48
    ELSE IF c >= 65 /\ c <= 70 THEN c - 55
    ELSE IF c >= 97 /\ c <= 102 THEN c - 87
    ELSE 0 - 1

\* The character an escape sequence \c stands for, 0 - 1 when there is none.
escaped(c) ==
    CASE c = 34 -> 34 [] c = 92 -> 92 [] c = 47 -> 47 [] c = 98 -> 8
      [] c = 102 -> 12 [] c = 110 -> 10 [] c = 114 -> 13 [] c = 116 -> 9
      [] OTHER -> 0 - 1

\* The characters of a string literal from position i, after its opening quote.
RECURSIVE scanString(_, _, _)
scanString(s, i, acc) ==
    IF i > Len(s) THEN SyntaxError
    ELSE IF s[i] = 34 THEN [ok |-> TRUE, v |-> jsString(acc), content |-> undefined,
                            next |-> i + 1]
    ELSE IF s[i] < 32 THEN SyntaxError
    ELSE IF s[i] # 92 THEN scanString(s, i + 1, Append(acc, s[i]))
    ELSE IF i + 1 > Len(s) THEN SyntaxError
    ELSE IF s[i + 1] = 117
         THEN IF i + 5 > Len(s) \/ \E k \in 2..5 : hexValue(s[i + k]) < 0
              THEN SyntaxError
              ELSE scanString(s, i + 6,
                       Append(acc, hexValue(s[i + 2]) * 4096 + hexValue(s[i + 3]) * 256
                                     + hexValue(s[i + 4]) * 16 + hexValue(s[i + 5])))
    ELSE IF escaped(s[i + 1]) < 0 THEN SyntaxError
    ELSE scanString(s, i + 2, Append(acc, escaped(s[i + 1])))

literalAt(s, i, word) ==
    i + Len(word) - 1 <= Len(s) /\ SubSeq(s, i, i + Len(word) - 1) = word

\* A member value at position i.
scalarAt(s, i) ==
    IF i > Len(s) THEN SyntaxError
    ELSE IF s[i] = 34 THEN scanString(s, i + 1, <<>>)
    ELSE IF literalAt(s, i, Str(<<"n", "u", "l", "l">>))
         THEN [ok |-> TRUE, v |-> jsNull, content |-> undefined, next |-> i + 4]
    ELSE IF literalAt(s, i, Str(<<"t", "r", "u", "e">>))
         THEN [ok |-> TRUE, v |-> jsBoolean(TRUE), content |-> undefined, next |-> i + 4]
    ELSE IF literalAt(s, i, Str(<<"f", "a", "l", "s", "e">>))
         THEN [ok |-> TRUE, v |-> jsBoolean(FALSE), content |-> undefined, next |-> i + 5]
    ELSE SyntaxError

\* The members of an object from position i (a key is expected there);
\* content is the value of the last member named "content" so far.
RECURSIVE membersAt(_, _, _)
membersAt(s, i, content) ==
    IF i > Len(s) \/ s[i] # 34 THEN SyntaxError
    ELSE LET key == scanString(s, i + 1, <<>>)
         IN  IF ~key.ok THEN SyntaxError
             ELSE LET colon == skipSpace(s, key.next)
                  IN  IF colon > Len(s) \/ s[colon] # 58 THEN SyntaxError
                      ELSE LET val == scalarAt(s, skipSpace(s, colon + 1))
                           IN  IF ~val.ok THEN SyntaxError
                               ELSE LET now == IF key.v.s = Str(<<"c", "o", "n", "t", "e", "n", "t">>)
                                               THEN val.v ELSE content
                                        after == skipSpace(s, val.next)
                                    IN  IF after > Len(s) THEN SyntaxError
                                        ELSE IF s[after] = 125
                                             THEN [ok |-> TRUE, v |-> jsObject,
                                                   content |-> now, next |-> after + 1]
                                        ELSE IF s[after] = 44
                                             THEN membersAt(s, skipSpace(s, after + 1), now)
                                        ELSE SyntaxError

valueAt(s, i) ==
    IF i > Len(s) THEN SyntaxError
    ELSE IF s[i] # 123 THEN scalarAt(s, i)
    ELSE LET first == skipSpace(s, i + 1)
         IN  IF first <= Len(s) /\ s[first] = 125
             THEN [ok |-> TRUE, v |-> jsObject, content |-> undefined, next |-> first + 1]
             ELSE membersAt(s, first, undefined)

\* JSON.parse(text): ok is FALSE when it throws; v is the value, content its
\* property "content".
JSONparse(text) ==
    LET r == valueAt(text, skipSpace(text, 1))
    IN  IF r.ok /\ skipSpace(text, r.next) = Len(text) + 1 THEN r ELSE SyntaxError

(***************************************************************************)
(* Text constants of the two pages.                                        *)
(***************************************************************************)
NL == Str(<<"\n">>)

\* The record boundary of the stream (SignIn.tsx:780).
RecordBoundary == Str(<<"\n", "\n">>)

SeparatorToken ==
    Str(<<"-", "-", "-", "S", "L", "I", "D", "E", "_", "S", "E", "P", "A", "R", "A",
          "T", "O", "R", "-", "-", "-">>)

\* "\n\n---SLIDE_SEPARATOR---\n\n"
SeparatorSequence == RecordBoundary \o SeparatorToken \o RecordBoundary

Stars == Str(<<"*", "*">>)

SlideWord == Str(<<"S", "l", "i", "d", "e", " ">>)

(***************************************************************************)
(* The slide normalizer.  A slide is [title, content, index].              *)
(***************************************************************************)
\* .filter(line => line.trim())
RECURSIVE nonBlank(_)
nonBlank(lines) ==
    IF lines = <<>> THEN <<>>
    ELSE (IF trim(Head(lines)) # <<>> THEN <<Head(lines)>> ELSE <<>>)
             \o nonBlank(Tail(lines))

\* .replace(/^\*\*|\*\*$/g, '')
stripStars(line) ==
    LET s1 == IF startsWith(line, Stars) THEN SubSeq(line, 3, Len(line)) ELSE line
    IN  IF endsWith(s1, Stars) THEN SubSeq(s1, 1, Len(s1) - 2) ELSE s1

\* .replace(/^Slide Title:|^Title:/i, '')
stripLabel(line) ==
    LET low == lowerAscii(line)
        long == Str(<<"s", "l", "i", "d", "e", " ", "t", "i", "t", "l", "e", ":">>)
        short == Str(<<"t", "i", "t", "l", "e", ":">>)
    IN  IF startsWith(low, long) THEN SubSeq(line, Len(long) + 1, Len(line))
        ELSE IF startsWith(low, short) THEN SubSeq(line, Len(short) + 1, Len(line))
        ELSE line

\* The default title numbered by the index itself.
titleOfByIndex(lines, index) ==
    LET t == IF lines = <<>> THEN <<>> ELSE trim(stripLabel(stripStars(lines[1])))
    IN  IF t = <<>> THEN SlideWord \o digits(index) ELSE t

\* lines[0]?.replace(..).replace(..).trim() || `Slide ${index + 1}`
titleOf(lines, index) ==
    LET t == IF lines = <<>> THEN <<>> ELSE trim(stripLabel(stripStars(lines[1])))
    IN  IF t = <<>> THEN SlideWord \o digits(index + 1) ELSE t

\* line.replace(/^[*\-•]\s*/, '• ')
bullet(line) ==
    IF line # <<>> /\ Head(line) \in {Ord("*"), Ord("-"), Ord("BULLET")}
    THEN <<Ord("BULLET"), Ord(" ")>> \o trimStart(Tail(line))
    ELSE line

slideLines(slideText) == nonBlank(split(trim(slideText), NL))

\* lines.slice(1)
rest(lines) == IF lines = <<>> THEN <<>> ELSE Tail(lines)

\* parseSlide of the generator page.
parseSlide(slideText, index) ==
    LET lines == slideLines(slideText)
    IN  [title |-> titleOf(lines, index),
         content |-> join(rest(lines), NL),
         index |-> index]

\* parseSlide of the viewer page: the body lines get the canonical bullet.
parseSlideView(slideText, index) ==
    LET lines == slideLines(slideText)
        body == rest(lines)
    IN  [title |-> titleOf(lines, index),
         content |-> join([i \in 1..Len(body) |-> bullet(body[i])], NL),
         index |-> index]

(***************************************************************************)
(* Stored text: export and re-hydration.                                   *)
(***************************************************************************)
\* The blocks joined by the separator token on a line of its own.
exportTextByToken(deck) ==
    join([i \in 1..Len(deck) |->
             SlideWord \o digits(i) \o Str(<<":", " ">>) \o deck[i].title
                 \o RecordBoundary \o deck[i].content],
         NL \o SeparatorToken \o NL)

\* `Slide ${i + 1}: ${slide.title}\n\n${slide.content}` joined by the
\* separator sequence (downloadAsTXT of both pages).
exportText(deck) ==
    join([i \in 1..Len(deck) |->
             SlideWord \o digits(i) \o Str(<<":", " ">>) \o deck[i].title
                 \o RecordBoundary \o deck[i].content],
         SeparatorSequence)

\* .filter(s => s.trim() && s.trim() !== "---SLIDE_SEPARATOR---")
RECURSIVE keptBlocks(_)
keptBlocks(blocks) ==
    IF blocks = <<>> THEN <<>>
    ELSE (IF trim(Head(blocks)) # <<>> /\ trim(Head(blocks)) # SeparatorToken
          THEN <<Head(blocks)>> ELSE <<>>) \o keptBlocks(Tail(blocks))

\* The slides of a stored content, generator page (handleSelectPresentation).
storedSlides(content) ==
    LET blocks == keptBlocks(split(content, SeparatorSequence))
    IN  [i \in 1..Len(blocks) |-> parseSlide(blocks[i], i - 1)]

\* The positions of the blocks the filter keeps, from position i on.
RECURSIVE keptPositions(_, _)
keptPositions(blocks, i) ==
    IF i > Len(blocks) THEN <<>>
    ELSE (IF trim(blocks[i]) # <<>> /\ trim(blocks[i]) # SeparatorToken
          THEN <<i>> ELSE <<>>) \o keptPositions(blocks, i + 1)

\* The slides numbered by the position of their block in the split.
storedSlidesViewByPosition(content) ==
    LET blocks == split(content, SeparatorSequence)
        at == keptPositions(blocks, 1)
    IN  [i \in 1..Len(at) |-> parseSlideView(blocks[at[i]], at[i] - 1)]

\* The slides of a stored content, viewer page (load).
storedSlidesView(content) ==
    LET blocks == keptBlocks(split(content, SeparatorSequence))
    IN  [i \in 1..Len(blocks) |-> parseSlideView(blocks[i], i - 1)]

(***************************************************************************)
(* The environment: what the generation endpoint streams and what the      *)
(* repository of stored presentations holds.                               *)
(*                                                                         *)
(* A segment is what the producer writes for one record: json is the       *)
(* record as written on the wire, text the content it stands for, kind     *)
(* what the producer meant by it.                                          *)
(***************************************************************************)
\* UTF-8 bytes of one code point (the producer's encoding).
utf8(c) ==
    IF c < 128 THEN <<c>>
    ELSE IF c < 2048 THEN <<192 + (c \div 64), 128 + (c % 64)>>
    ELSE IF c < 65536
         THEN <<224 + (c \div 4096), 128 + ((c \div 64) % 64), 128 + (c % 64)>>
    ELSE <<240 + (c \div 262144), 128 + ((c \div 4096) % 64),
           128 + ((c \div 64) % 64), 128 + (c % 64)>>

RECURSIVE encodeFrom(_, _, _)
encodeFrom(text, from, to) ==
    IF from > to THEN <<>>
    ELSE IF from = to THEN utf8(text[from])
    ELSE encodeFrom(text, from, (from + to) \div 2)
             \o encodeFrom(text, (from + to) \div 2 + 1, to)

encode(text) == encodeFrom(text, 1, Len(text))

ContentKey == Str(<<"{", "\"", "c", "o", "n", "t", "e", "n", "t", "\"", ":", "\"">>)

ObjectEnd == Str(<<"\"", "}">>)

SegmentNames == {"slideA", "slideB", "separator", "empty", "noContent", "bad"}

segmentOf(name) ==
    CASE name = "slideA" ->
           [kind |-> "slide",
            json |-> ContentKey \o Str(<<"*", "*", "A", "*", "*", "\\", "n", "-", " ", "b">>)
                         \o ObjectEnd,
            text |-> Str(<<"*", "*", "A", "*", "*", "\n", "-", " ", "b">>)]
      [] name = "slideB" ->
           [kind |-> "slide",
            json |-> ContentKey \o Str(<<"B", "\\", "n", "BULLET", " ", "c">>) \o ObjectEnd,
            text |-> Str(<<"B", "\n", "BULLET", " ", "c">>)]
      [] name = "separator" ->
           [kind |-> "separator",
            json |-> ContentKey \o SeparatorToken \o ObjectEnd,
            text |-> SeparatorToken]
      [] name = "empty" ->
           [kind |-> "empty", json |-> ContentKey \o ObjectEnd, text |-> <<>>]
      [] name = "noContent" ->
           [kind |-> "empty", json |-> Str(<<"{", "}">>), text |-> <<>>]
      [] name = "bad" ->
           [kind |-> "malformed", json |-> Str(<<"{", "\"", "c">>), text |-> <<>>]

\* The segments by name, and the bytes of each one followed by the record
\* boundary.
Segments == [name \in SegmentNames |-> segmentOf(name)]

Segment(name) == Segments[name]

SegmentBytes == [name \in SegmentNames |-> encode(Segments[name].json \o RecordBoundary)]


\* The sequences over S of length at most n.
SeqsUpTo(S, n) == UNION {[1..k -> S] : k \in 0..n}

\* The bytes of the records sent, each one terminated by the record boundary,
\* followed by the bytes of an unterminated last record, if any.
RECURSIVE wire(_)
wire(names) ==
    IF names = <<>> THEN <<>>
    ELSE SegmentBytes[Head(names)] \o wire(Tail(names))

Tails == {"none", "slideA"}

TailBytes ==
    [name \in Tails |-> IF name = "none" THEN <<>> ELSE encode(Segments[name].json)]

wireTail(name) == TailBytes[name]

\* The stored presentations, by id (GET /{id}); content is a string or null.
StoredIds == {1, 2}

TwoSlides ==
    Str(<<"S", "l", "i", "d", "e", " ", "1", ":", " ", "A", "\n", "\n", "-", " ", "b">>)
        \o SeparatorSequence
        \o Str(<<"S", "l", "i", "d", "e", " ", "2", ":", " ", "B", "\n", "\n", "*", "c">>)

\* Blocks a stored content is made of: a titled slide with a bullet, a slide
\* with a blank line in its body, the bare separator token, a blank block.
Blocks ==
    {Str(<<"*", "*", "A", "*", "*", "\n", "-", " ", "b">>),
     Str(<<"T", "i", "t", "l", "e", ":", " ", "B", "\n", "c", "\n", "\n", "*", "d">>),
     SeparatorToken,
     Str(<<" ">>)}

Contents == {join(blocks, SeparatorSequence) : blocks \in SeqsUpTo(Blocks, MaxBlocks)}

(***************************************************************************)
(* State.                                                                  *)
(***************************************************************************)
VARIABLES
    title,                 \* useState("")         SignIn.tsx:674
    scope,                 \* useState("Entire Document")  SignIn.tsx:675
    topic,                 \* useState("")         SignIn.tsx:676
    selectedPresentation,  \* useState(null)       SignIn.tsx:686; 0 is null, else the id
    isGenerating,          \* useState(false)      SignIn.tsx:688
    generatedSlides,       \* useState([])         SignIn.tsx:689
    currentSlideIndex,     \* useState(0)          SignIn.tsx:690
    toast,                 \* title of the last notification raised, "" when none
    runs,                  \* the calls of handleSubmit in flight, each with its locals
    requests,              \* the GETs of handleSelectPresentation in flight, per id
    loadingPresentations,  \* useState(false)      SignIn.tsx:685
    exported,              \* the text file the generator page saved last
    pptRequests,           \* the GETs of downloadAsPPT in flight
    sent,                  \* the records the producer streams, by segment name
    unterminated,          \* the unterminated last record it streams, or "none"
    responseStatus,        \* the HTTP status the generation endpoint answers with
    library,               \* the stored presentations: id -> content
    id,                    \* useParams()          PresentationView.tsx:45
    presentation,          \* useState(null)       PresentationView.tsx:46; 0 is null
    slides,                \* useState([])         PresentationView.tsx:47
    currentSlide,          \* useState(0)          PresentationView.tsx:48
    loading,               \* useState(true)       PresentationView.tsx:49
    err,                   \* useState(null)       PresentationView.tsx:50; "" is null
    loads,                 \* the GETs of load in flight, per id
    download,              \* the text file the viewer saved last
    keyListener,           \* the handleKeyPress registered: what it captured
    rawBlock,              \* a text block handed to the two parseSlide functions
    ordinal,               \* the index handed with it
    normalized             \* what each parseSlide returned for them, if called

vars == <<title, scope, topic, selectedPresentation, isGenerating, generatedSlides, currentSlideIndex,
          toast, runs, requests, loadingPresentations, exported, pptRequests, sent,
          unterminated, responseStatus, library, id, presentation, slides, currentSlide,
          loading, err, loads, download, keyListener, rawBlock, ordinal, normalized>>

viewer == <<id, presentation, slides, currentSlide, loading, err, loads, download,
            keyListener>>

form == <<title, scope, topic>>

page == <<form, selectedPresentation, isGenerating, generatedSlides, currentSlideIndex,
          toast>>

\* The GETs of the stored presentations.
catalogue == <<requests, loadingPresentations>>

exports == <<exported, pptRequests>>

bench == <<rawBlock, ordinal, normalized>>

\* What no handler of the two pages writes.
environment == <<sent, unterminated, responseStatus, library, bench>>

Stored(n) == [id |-> n, content |-> library[n]]

\* The body of the response to the generation request.
responseBody == wire(sent) \o wireTail(unterminated)

Titles == {Str(<<" ">>), Str(<<"A">>)}

\* The generator page once the loadPresentations of its mount effect
\* (SignIn.tsx:710-712) was answered with the list.
InitPage ==
    /\ title \in Titles
    /\ scope = "Entire Document"
    /\ topic = <<>>
    /\ selectedPresentation = 0
    /\ isGenerating = FALSE
    /\ generatedSlides = <<>>
    /\ currentSlideIndex = 0
    /\ toast = ""
    /\ runs = <<>>
    /\ requests = [n \in StoredIds |-> 0]
    /\ loadingPresentations = FALSE
    /\ exported = [saved |-> FALSE, text |-> <<>>]
    /\ pptRequests = 0

\* The viewer as mounted on the route of presentation n: load is under way.
InitViewer(n) ==
    /\ id = n
    /\ presentation = 0
    /\ slides = <<>>
    /\ currentSlide = 0
    /\ loading = TRUE
    /\ err = ""
    /\ loads = [k \in StoredIds |-> IF k = n THEN 1 ELSE 0]
    /\ download = [saved |-> FALSE, text |-> <<>>]
    /\ keyListener = [currentSlide |-> 0, length |-> 0, handled |-> 0]

\* parseSlide not called on its own.
InitBench ==
    /\ rawBlock = <<>>
    /\ ordinal = 0
    /\ normalized = [live |-> <<>>, view |-> <<>>]

TwoStored == [n \in StoredIds |-> IF n = 1 THEN jsString(TwoSlides) ELSE jsNull]

(***************************************************************************)
(* handleSubmit (SignIn.tsx:735-816).  A run is one call of it, with its   *)
(* locals: pc "fetch" while the request is awaited, "read" inside the read *)
(* loop; body holds the bytes of the response not yet read.                *)
(***************************************************************************)
removeAt(seq, k) == SubSeq(seq, 1, k - 1) \o SubSeq(seq, k + 1, Len(seq))

\* !value as JavaScript evaluates it.
falsy(v) ==
    \/ v.t \in {"undefined", "null"}
    \/ v.t = "string" /\ v.s = <<>>
    \/ v.t = "boolean" /\ ~v.b

\* The for loop body without the separator test.
recordKeepingSeparator(st, slideJson) ==
    IF slideJson = <<>> THEN st
    ELSE LET slide == JSONparse(slideJson)
         IN  IF ~slide.ok \/ slide.v.t = "null" THEN [st EXCEPT !.threw = TRUE]
             ELSE IF falsy(slide.content) THEN st
             ELSE IF slide.content.t # "string" THEN [st EXCEPT !.threw = TRUE]
             ELSE [st EXCEPT !.slides = Append(@, parseSlide(slide.content.s, Len(@))),
                             !.index = @ + 1]

\* The for loop body without the test of !slide.content.
recordTakingEmpty(st, slideJson) ==
    IF slideJson = <<>> THEN st
    ELSE LET slide == JSONparse(slideJson)
         IN  IF ~slide.ok \/ slide.v.t = "null" THEN [st EXCEPT !.threw = TRUE]
             ELSE IF slide.content.t # "string" THEN [st EXCEPT !.threw = TRUE]
             ELSE IF trim(slide.content.s) = SeparatorToken THEN st
             ELSE [st EXCEPT !.slides = Append(@, parseSlide(slide.content.s, Len(@))),
                             !.index = @ + 1]

\* The for loop body numbering the slide by currentSlideIndex.
recordByCounter(st, slideJson) ==
    IF slideJson = <<>> THEN st
    ELSE LET slide == JSONparse(slideJson)
         IN  IF ~slide.ok \/ slide.v.t = "null" THEN [st EXCEPT !.threw = TRUE]
             ELSE IF falsy(slide.content) THEN st
             ELSE IF slide.content.t # "string" THEN [st EXCEPT !.threw = TRUE]
             ELSE IF trim(slide.content.s) = SeparatorToken THEN st
             ELSE [st EXCEPT !.slides = Append(@, parseSlide(slide.content.s, st.index)),
                             !.index = @ + 1]

\* One pass of the for loop body (SignIn.tsx:784-793) on the record
\* slideJson; st is [slides, index, threw], the two state cells the loop
\* updates and whether an exception left the loop.
record(st, slideJson) ==
    IF slideJson = <<>> THEN st
    ELSE LET slide == JSONparse(slideJson)
         IN  IF ~slide.ok \/ slide.v.t = "null" THEN [st EXCEPT !.threw = TRUE]
             ELSE IF falsy(slide.content) THEN st
             ELSE IF slide.content.t # "string" THEN [st EXCEPT !.threw = TRUE]
             ELSE IF trim(slide.content.s) = SeparatorToken THEN st
             ELSE [st EXCEPT !.slides = Append(@, parseSlide(slide.content.s, Len(@))),
                             !.index = @ + 1]

\* for (let i = 0; i < parts.length - 2; i++)
RECURSIVE recordsButLast(_, _, _)
recordsButLast(st, parts, i) ==
    IF i > Len(parts) - 2 \/ st.threw THEN st
    ELSE recordsButLast(record(st, parts[i]), parts, i + 1)

\* for (let i = 0; i < parts.length - 1; i++): the records in order, up to the
\* one that throws.
RECURSIVE records(_, _, _)
records(st, parts, i) ==
    IF i > Len(parts) - 1 \/ st.threw THEN st
    ELSE records(record(st, parts[i]), parts, i + 1)

\* The catch and finally blocks with the loop going on after them.
failedKeepingRun(r) ==
    /\ toast' = "Error"
    /\ isGenerating' = FALSE
    /\ runs' = runs

\* The catch block and the finally block (SignIn.tsx:806-815).
failed(r) ==
    /\ toast' = "Error"
    /\ isGenerating' = FALSE
    /\ runs' = removeAt(runs, r)

\* The body of the generation request, as far as the form's title, scope
\* and topic go (SignIn.tsx:754-757).
requestBody ==
    [title |-> title,
     scope |-> scope,
     topic |-> IF scope = "Specific Topic" THEN jsString(topic) ELSE jsNull]

\* handleSubmit without the test of the title.
handleSubmitUnchecked ==
    /\ ~isGenerating
    /\ Len(runs) < MaxRuns
    /\ isGenerating' = TRUE
    /\ generatedSlides' = <<>>
    /\ currentSlideIndex' = 0
    /\ runs' = Append(runs, [pc |-> "fetch", request |-> requestBody, body |-> <<>>,
                             decoder |-> newDecoder, accumulatedData |-> <<>>])
    /\ UNCHANGED <<form, toast, selectedPresentation, catalogue, exports, environment, viewer>>

\* The click on a Generate button that stays enabled while isGenerating.
handleSubmitWhileGenerating ==
    /\ Len(runs) < MaxRuns
    /\ IF trim(title) = <<>>
       THEN /\ toast' = "Title required"
            /\ UNCHANGED <<isGenerating, generatedSlides, currentSlideIndex, runs>>
       ELSE /\ isGenerating' = TRUE
            /\ generatedSlides' = <<>>
            /\ currentSlideIndex' = 0
            /\ runs' = Append(runs, [pc |-> "fetch", request |-> requestBody, body |-> <<>>,
                                     decoder |-> newDecoder, accumulatedData |-> <<>>])
            /\ UNCHANGED toast
    /\ UNCHANGED <<form, selectedPresentation, catalogue, exports, environment, viewer>>

\* Click on "Generate Presentation"; the button is disabled while
\* isGenerating (SignIn.tsx:1006-1010).
handleSubmit ==
    /\ ~isGenerating
    /\ Len(runs) < MaxRuns
    /\ IF trim(title) = <<>>
       THEN /\ toast' = "Title required"
            /\ UNCHANGED <<isGenerating, generatedSlides, currentSlideIndex, runs>>
       ELSE /\ isGenerating' = TRUE
            /\ generatedSlides' = <<>>
            /\ currentSlideIndex' = 0
            /\ runs' = Append(runs, [pc |-> "fetch", request |-> requestBody, body |-> <<>>,
                                     decoder |-> newDecoder, accumulatedData |-> <<>>])
            /\ UNCHANGED toast
    /\ UNCHANGED <<form, selectedPresentation, catalogue, exports, environment, viewer>>

\* await fetch(..) resolves with a response that has a body.
fetchResolved(r) ==
    /\ runs[r].pc = "fetch"
    /\ runs' = [runs EXCEPT ![r] = [pc |-> "read", request |-> runs[r].request,
                                    body |-> responseBody, decoder |-> newDecoder,
                                    accumulatedData |-> <<>>]]
    /\ UNCHANGED <<page, catalogue, exports, environment, viewer>>

\* The return on a response without body skipping the finally block.
fetchNoBodyKeepingFlag(r) ==
    /\ runs[r].pc = "fetch"
    /\ runs' = removeAt(runs, r)
    /\ UNCHANGED <<page, catalogue, exports, environment, viewer>>

\* if (!response.body) return; then the finally block.
fetchNoBody(r) ==
    /\ runs[r].pc = "fetch"
    /\ isGenerating' = FALSE
    /\ runs' = removeAt(runs, r)
    /\ UNCHANGED <<form, selectedPresentation, generatedSlides, currentSlideIndex, toast,
                   catalogue, exports, environment, viewer>>

\* await fetch(..) rejects.
fetchRejected(r) ==
    /\ runs[r].pc = "fetch"
    /\ failed(r)
    /\ UNCHANGED <<form, selectedPresentation, generatedSlides, currentSlideIndex,
                   catalogue, exports, environment, viewer>>

\* The pass emptying the buffer once a record was handled.
passDroppingRemainder(run, value, prev, index) ==
    LET decoded == decode(run.decoder, value)
        data == run.accumulatedData \o decoded.out
        parts == split(data, RecordBoundary)
        st == records([slides |-> prev, index |-> index, threw |-> FALSE], parts, 1)
    IN  [slides |-> st.slides, index |-> st.index, threw |-> st.threw,
         decoder |-> decoded.d,
         accumulatedData |-> IF Len(parts) > 1 THEN <<>> ELSE data]

\* One pass of the while loop on the chunk value (SignIn.tsx:777-796): the
\* slide list, the slide index and the locals as the pass leaves them.
pass(run, value, prev, index) ==
    LET decoded == decode(run.decoder, value)
        data == run.accumulatedData \o decoded.out
        parts == split(data, RecordBoundary)
        st == records([slides |-> prev, index |-> index, threw |-> FALSE], parts, 1)
    IN  [slides |-> st.slides, index |-> st.index, threw |-> st.threw,
         decoder |-> decoded.d,
         accumulatedData |-> IF Len(parts) > 1 THEN parts[Len(parts)] ELSE data]

\* reader.read() resolves with the next n bytes.
readChunk(r, n) ==
    /\ runs[r].pc = "read"
    /\ n >= 1 /\ n <= Len(runs[r].body)
    /\ \E after \in {pass(runs[r], SubSeq(runs[r].body, 1, n), generatedSlides,
                          currentSlideIndex)} :
           /\ generatedSlides' = after.slides
           /\ currentSlideIndex' = after.index
           /\ IF after.threw
              THEN failed(r)
              ELSE /\ runs' = [runs EXCEPT ![r] =
                          [pc |-> "read",
                           request |-> runs[r].request,
                           body |-> SubSeq(runs[r].body, n + 1, Len(runs[r].body)),
                           decoder |-> after.decoder,
                           accumulatedData |-> after.accumulatedData]]
                   /\ UNCHANGED <<toast, isGenerating>>
    /\ UNCHANGED <<form, selectedPresentation, catalogue, exports, environment, viewer>>

\* The end of the stream handling what is left in the buffer as a last record.
readDoneFlushing(r) ==
    /\ runs[r].pc = "read"
    /\ runs[r].body = <<>>
    /\ \E st \in {record([slides |-> generatedSlides, index |-> currentSlideIndex,
                          threw |-> FALSE], runs[r].accumulatedData)} :
           /\ generatedSlides' = st.slides
           /\ currentSlideIndex' = st.index
           /\ toast' = IF st.threw THEN "Error" ELSE "Presentation generated"
    /\ isGenerating' = FALSE
    /\ runs' = removeAt(runs, r)
    /\ loadingPresentations' = TRUE
    /\ UNCHANGED <<form, selectedPresentation, requests, exports, environment, viewer>>

\* The end of the stream with the catch block entered after the success
\* notification.
readDoneThenCatch(r) ==
    /\ runs[r].pc = "read"
    /\ runs[r].body = <<>>
    /\ loadingPresentations' = TRUE
    /\ toast' = "Error"
    /\ isGenerating' = FALSE
    /\ runs' = removeAt(runs, r)
    /\ UNCHANGED <<form, selectedPresentation, generatedSlides, currentSlideIndex,
                   requests, exports, environment, viewer>>

\* reader.read() resolves with done: break, loadPresentations called and not
\* awaited, the success notification, the finally block.
readDone(r) ==
    /\ runs[r].pc = "read"
    /\ runs[r].body = <<>>
    /\ loadingPresentations' = TRUE
    /\ toast' = "Presentation generated"
    /\ isGenerating' = FALSE
    /\ runs' = removeAt(runs, r)
    /\ UNCHANGED <<form, selectedPresentation, generatedSlides, currentSlideIndex,
                   requests, exports, environment, viewer>>

\* loadPresentations after the await (SignIn.tsx:697-698, 705-707): the list
\* of cards is the stored presentations.  Calls that overlap are held as one.
presentationsLoaded ==
    /\ loadingPresentations
    /\ loadingPresentations' = FALSE
    /\ UNCHANGED <<page, runs, requests, exports, environment, viewer>>

\* loadPresentations when the GET rejects (SignIn.tsx:699-707).
presentationsFailed ==
    /\ loadingPresentations
    /\ loadingPresentations' = FALSE
    /\ toast' = "Could not load presentations"
    /\ UNCHANGED <<form, selectedPresentation, isGenerating, generatedSlides,
                   currentSlideIndex, runs, requests, exports, environment, viewer>>

\* The catch block emptying the slide list.
readFailedClearing(r) ==
    /\ runs[r].pc = "read"
    /\ failed(r)
    /\ generatedSlides' = <<>>
    /\ UNCHANGED <<form, selectedPresentation, currentSlideIndex, catalogue, exports, environment,
                   viewer>>

\* reader.read() rejects: the connection failed.
readFailed(r) ==
    /\ runs[r].pc = "read"
    /\ failed(r)
    /\ UNCHANGED <<form, selectedPresentation, generatedSlides, currentSlideIndex,
                   catalogue, exports, environment, viewer>>

(***************************************************************************)
(* The form (SignIn.tsx:893-929).                                          *)
(***************************************************************************)
Scopes == {"Entire Document", "Specific Topic"}

Topics == {<<>>, Str(<<"x">>)}

\* onChange of the Title input.
setTitle(text) ==
    /\ title' = text
    /\ UNCHANGED <<scope, topic, selectedPresentation, isGenerating, generatedSlides,
                   currentSlideIndex, toast, runs, catalogue, exports, environment, viewer>>

\* onValueChange of the Scope select.
setScope(value) ==
    /\ scope' = value
    /\ UNCHANGED <<title, topic, selectedPresentation, isGenerating, generatedSlides,
                   currentSlideIndex, toast, runs, catalogue, exports, environment, viewer>>

\* onChange of the Topic Name input, rendered when the scope is "Specific
\* Topic" (SignIn.tsx:918-929).
setTopic(text) ==
    /\ scope = "Specific Topic"
    /\ topic' = text
    /\ UNCHANGED <<title, scope, selectedPresentation, isGenerating, generatedSlides,
                   currentSlideIndex, toast, runs, catalogue, exports, environment, viewer>>

(***************************************************************************)
(* The list of stored presentations and the "Back to list" button.         *)
(***************************************************************************)
\* The list is rendered when nothing is selected and no slide is shown, and
\* its cards once it is loaded (SignIn.tsx:1025, 1121-1170); a click on a
\* card calls handleSelectPresentation, which awaits the GET.
selectClicked(pid) ==
    /\ selectedPresentation = 0
    /\ generatedSlides = <<>>
    /\ ~loadingPresentations
    /\ requests[pid] < MaxSelects
    /\ requests' = [requests EXCEPT ![pid] = @ + 1]
    /\ UNCHANGED <<page, runs, loadingPresentations, exports, environment, viewer>>

\* handleSelectPresentation after the await (SignIn.tsx:717-725).
selectResolved(pid) ==
    /\ requests[pid] > 0
    /\ requests' = [requests EXCEPT ![pid] = @ - 1]
    /\ selectedPresentation' = Stored(pid).id
    /\ generatedSlides' = IF falsy(Stored(pid).content) THEN generatedSlides
                          ELSE storedSlides(Stored(pid).content.s)
    /\ UNCHANGED <<form, isGenerating, currentSlideIndex, toast, runs, loadingPresentations, exports,
                   environment, viewer>>

\* handleSelectPresentation when the GET rejects (SignIn.tsx:726-732).
selectRejected(pid) ==
    /\ requests[pid] > 0
    /\ requests' = [requests EXCEPT ![pid] = @ - 1]
    /\ toast' = "Could not load presentation details"
    /\ UNCHANGED <<form, selectedPresentation, isGenerating, generatedSlides,
                   currentSlideIndex, runs, loadingPresentations, exports, environment, viewer>>

\* onClick of "Back to list" (SignIn.tsx:1028-1038).
backToList ==
    /\ selectedPresentation # 0 \/ generatedSlides # <<>>
    /\ selectedPresentation' = 0
    /\ generatedSlides' = <<>>
    /\ UNCHANGED <<form, isGenerating, currentSlideIndex, toast, runs, catalogue,
                   exports, environment, viewer>>

(***************************************************************************)
(* The export buttons of the deck (SignIn.tsx:1040-1057); both are         *)
(* disabled while isGenerating.                                            *)
(***************************************************************************)
\* The deck is rendered in place of the list (SignIn.tsx:1025).
deckVisible == selectedPresentation # 0 \/ generatedSlides # <<>>

\* The click on an Export TXT button that stays enabled while isGenerating.
downloadAsTXTWhileGenerating ==
    /\ deckVisible
    /\ IF selectedPresentation = 0 \/ falsy(Stored(selectedPresentation).content)
       THEN UNCHANGED <<exported, toast>>
       ELSE /\ exported' = [saved |-> TRUE, text |-> exportText(generatedSlides)]
            /\ toast' = "Downloaded"
    /\ UNCHANGED <<form, selectedPresentation, isGenerating, generatedSlides,
                   currentSlideIndex, runs, catalogue, pptRequests, environment, viewer>>

\* downloadAsTXT (SignIn.tsx:854-873): nothing without a selected
\* presentation that has content; else the file saved and the notification.
downloadAsTXT ==
    /\ deckVisible
    /\ ~isGenerating
    /\ IF selectedPresentation = 0 \/ falsy(Stored(selectedPresentation).content)
       THEN UNCHANGED <<exported, toast>>
       ELSE /\ exported' = [saved |-> TRUE, text |-> exportText(generatedSlides)]
            /\ toast' = "Downloaded"
    /\ UNCHANGED <<form, selectedPresentation, isGenerating, generatedSlides,
                   currentSlideIndex, runs, catalogue, pptRequests, environment, viewer>>

\* downloadAsPPT up to its fetch (SignIn.tsx:818-822): nothing without a
\* selected presentation.
downloadAsPPT ==
    /\ deckVisible
    /\ ~isGenerating
    /\ pptRequests < MaxSelects
    /\ pptRequests' = IF selectedPresentation = 0 THEN pptRequests ELSE pptRequests + 1
    /\ UNCHANGED <<page, runs, catalogue, exported, environment, viewer>>

\* The download answered with the file (SignIn.tsx:830-843).
pptResolved ==
    /\ pptRequests > 0
    /\ pptRequests' = pptRequests - 1
    /\ toast' = "PPTX Downloaded"
    /\ UNCHANGED <<form, selectedPresentation, isGenerating, generatedSlides,
                   currentSlideIndex, runs, catalogue, exported, environment, viewer>>

\* The download rejected or answered with an error status (SignIn.tsx:824-828,
\* 844-851).
pptFailed ==
    /\ pptRequests > 0
    /\ pptRequests' = pptRequests - 1
    /\ toast' = "Download Failed"
    /\ UNCHANGED <<form, selectedPresentation, isGenerating, generatedSlides,
                   currentSlideIndex, runs, catalogue, exported, environment, viewer>>

(***************************************************************************)
(* The viewer page (PresentationView.tsx).                                 *)
(***************************************************************************)
\* The deck is rendered (PresentationView.tsx:150-291): past the two early
\* returns, with slides[currentSlide] a slide.
deckShown ==
    /\ ~loading
    /\ err = ""
    /\ presentation # 0
    /\ slides # <<>>
    /\ currentSlide \in 0..(Len(slides) - 1)

\* The render throws past the two early returns: slides[currentSlide] is
\* undefined (PresentationView.tsx:172) and its index is read (223).  The
\* page is unmounted and nothing of it acts any more.
renderThrows ==
    /\ ~loading
    /\ err = ""
    /\ presentation # 0
    /\ slides # <<>>
    /\ currentSlide \notin 0..(Len(slides) - 1)

\* The route changes to another presentation: the effect on [id] calls load,
\* which sets loading and awaits the GET (PresentationView.tsx:53-60, 76).
navigate(pid) ==
    /\ ~renderThrows
    /\ pid # id
    /\ loads[pid] < MaxSelects
    /\ id' = pid
    /\ loading' = TRUE
    /\ loads' = [loads EXCEPT ![pid] = @ + 1]
    /\ UNCHANGED <<presentation, slides, currentSlide, err, download, keyListener, page,
                   runs, catalogue, exports, environment>>

\* load after the await (PresentationView.tsx:61-69, 72-74).
loadResolved(pid) ==
    /\ ~renderThrows
    /\ loads[pid] > 0
    /\ loads' = [loads EXCEPT ![pid] = @ - 1]
    /\ presentation' = pid
    /\ slides' = IF falsy(library[pid]) THEN slides ELSE storedSlidesView(library[pid].s)
    /\ loading' = FALSE
    /\ UNCHANGED <<id, currentSlide, err, download, keyListener, page, runs, catalogue,
                   exports, environment>>

\* load when the GET rejects (PresentationView.tsx:70-74).
loadRejected(pid) ==
    /\ ~renderThrows
    /\ loads[pid] > 0
    /\ loads' = [loads EXCEPT ![pid] = @ - 1]
    /\ err' = "Failed to load presentation"
    /\ loading' = FALSE
    /\ UNCHANGED <<id, presentation, slides, currentSlide, download, keyListener, page,
                   runs, catalogue, exports, environment>>

\* The effect on [currentSlide, slides.length] (PresentationView.tsx:79-90)
\* runs after a render in which one of them changed: the listener is
\* replaced by one that holds their values of that render.
registerKeyListener ==
    /\ ~renderThrows
    /\ <<keyListener.currentSlide, keyListener.length>> # <<currentSlide, Len(slides)>>
    /\ keyListener' = [currentSlide |-> currentSlide, length |-> Len(slides), handled |-> 0]
    /\ UNCHANGED <<id, presentation, slides, currentSlide, loading, err, loads, download,
                   page, runs, catalogue, exports, environment>>

Keys == {"ArrowRight", "ArrowLeft"}

\* handleKeyPress (PresentationView.tsx:80-86) on a keydown event: the tests
\* read what the listener registered holds, the updates the state as it is.
handleKeyPress(key) ==
    /\ ~renderThrows
    /\ keyListener.handled < MaxKeys
    /\ IF key = "ArrowRight" /\ keyListener.currentSlide < keyListener.length - 1
       THEN /\ currentSlide' = currentSlide + 1
            /\ keyListener' = [keyListener EXCEPT !.handled = @ + 1]
       ELSE IF key = "ArrowLeft" /\ keyListener.currentSlide > 0
       THEN /\ currentSlide' = currentSlide - 1
            /\ keyListener' = [keyListener EXCEPT !.handled = @ + 1]
       ELSE UNCHANGED <<currentSlide, keyListener>>
    /\ UNCHANGED <<id, presentation, slides, loading, err, loads, download, page, runs,
                   catalogue, exports, environment>>

\* onClick of "Previous" (PresentationView.tsx:255-264).
previous ==
    /\ deckShown
    /\ currentSlide # 0
    /\ currentSlide' = IF currentSlide - 1 > 0 THEN currentSlide - 1 ELSE 0
    /\ UNCHANGED <<id, presentation, slides, loading, err, loads, download, keyListener,
                   page, runs, catalogue, exports, environment>>

\* onClick of "Next" (PresentationView.tsx:280-289).
next ==
    /\ deckShown
    /\ currentSlide # Len(slides) - 1
    /\ currentSlide' = IF currentSlide + 1 < Len(slides) - 1 THEN currentSlide + 1
                       ELSE Len(slides) - 1
    /\ UNCHANGED <<id, presentation, slides, loading, err, loads, download, keyListener,
                   page, runs, catalogue, exports, environment>>

\* onClick of a dot (PresentationView.tsx:267-277).
dot(idx) ==
    /\ deckShown
    /\ idx \in 0..(Len(slides) - 1)
    /\ currentSlide' = idx
    /\ UNCHANGED <<id, presentation, slides, loading, err, loads, download, keyListener,
                   page, runs, catalogue, exports, environment>>

\* downloadAsTXT of the viewer (PresentationView.tsx:128-148): the file saved.
viewDownloadAsTXT ==
    /\ deckShown
    /\ ~falsy(library[presentation])
    /\ download' = [saved |-> TRUE, text |-> exportText(slides)]
    /\ UNCHANGED <<id, presentation, slides, currentSlide, loading, err, loads, keyListener,
                   page, runs, catalogue, exports, environment>>

(***************************************************************************)
(* Specifications.                                                         *)
(***************************************************************************)
\* The sizes reader.read() may deliver from a body of n bytes left.
chunkSizes(n) == {k \in 1..n : k <= MaxChunk} \cup ({n} \ {0})

Run ==
    \/ handleSubmit
    \/ \E r \in DOMAIN runs : fetchResolved(r)
    \/ \E r \in DOMAIN runs : fetchNoBody(r)
    \/ \E r \in DOMAIN runs : fetchRejected(r)
    \/ \E r \in DOMAIN runs : \E n \in chunkSizes(Len(runs[r].body)) : readChunk(r, n)
    \/ \E r \in DOMAIN runs : readDone(r)
    \/ \E r \in DOMAIN runs : readFailed(r)

\* The answers to the GETs of loadPresentations.
List ==
    \/ presentationsLoaded
    \/ presentationsFailed

User ==
    \/ \E pid \in StoredIds : selectClicked(pid)
    \/ \E pid \in StoredIds : selectResolved(pid)
    \/ \E pid \in StoredIds : selectRejected(pid)
    \/ backToList

\* The generator page driven by the stream alone: every response of at most
\* MaxRecords records, with or without an unterminated last record.
InitStream ==
    /\ InitPage
    /\ responseStatus = 200
    /\ InitBench
    /\ InitViewer(1)
    /\ library = TwoStored
    /\ sent \in SeqsUpTo(SegmentNames, MaxRecords)
    /\ unterminated \in Tails

NextStream == Run

SpecStream == InitStream /\ [][NextStream]_vars

\* The generator page with its user; the list asked for when a run ends is
\* not answered.
PageSegments == {"slideA", "bad"}

Init ==
    /\ InitPage
    /\ responseStatus = 200
    /\ InitBench
    /\ InitViewer(1)
    /\ library = TwoStored
    /\ sent \in SeqsUpTo(PageSegments, MaxRecords)
    /\ unterminated = "none"

Next == Run \/ User

Spec == Init /\ [][Next]_vars

\* The viewer page without its keyboard: the first stored presentation
\* holds any content of at most MaxBlocks blocks or none, the second one a
\* single slide.
View ==
    \/ \E pid \in StoredIds : navigate(pid)
    \/ \E pid \in StoredIds : loadResolved(pid)
    \/ \E pid \in StoredIds : loadRejected(pid)
    \/ previous
    \/ next
    \/ \E idx \in 0..(Len(slides) - 1) : dot(idx)
    \/ viewDownloadAsTXT

InitView ==
    /\ InitPage
    /\ responseStatus = 200
    /\ InitBench
    /\ title = Str(<<"A">>)
    /\ sent = <<>>
    /\ unterminated = "none"
    /\ \E first \in {jsNull} \cup {jsString(c) : c \in Contents} :
           library = [n \in StoredIds |->
                         IF n = 1 THEN first ELSE jsString(Str(<<"A", "\n", "-", "b">>))]
    /\ \E n \in StoredIds : InitViewer(n)

NextView == View

SpecView == InitView /\ [][NextView]_vars

\* The viewer page with its keyboard: the first stored presentation holds
\* two slides, the second one a single slide.
Keyboard ==
    \/ registerKeyListener
    \/ \E key \in Keys : handleKeyPress(key)

InitKeys ==
    /\ InitPage
    /\ responseStatus = 200
    /\ InitBench
    /\ title = Str(<<"A">>)
    /\ sent = <<>>
    /\ unterminated = "none"
    /\ library = [n \in StoredIds |->
                      IF n = 1 THEN jsString(TwoSlides)
                      ELSE jsString(Str(<<"A", "\n", "-", "b">>))]
    /\ \E n \in StoredIds : InitViewer(n)

NextKeys == View \/ Keyboard

SpecKeys == InitKeys /\ [][NextKeys]_vars

\* The generator page with its user, who opens the first stored
\* presentation, and the export buttons, on a response of one slide.
Open ==
    \/ selectClicked(1)
    \/ selectResolved(1)
    \/ selectRejected(1)
    \/ backToList

Export ==
    \/ downloadAsTXT
    \/ downloadAsPPT
    \/ pptResolved
    \/ pptFailed

InitExport ==
    /\ InitPage
    /\ responseStatus = 200
    /\ title = Str(<<"A">>)
    /\ InitBench
    /\ InitViewer(1)
    /\ library = TwoStored
    /\ sent = <<"slideA">>
    /\ unterminated = "none"

NextExport == Run \/ Open \/ List \/ Export

SpecExport == InitExport /\ [][NextExport]_vars

\* The generator page with its form, on a response of one slide.
Form ==
    \/ \E text \in Titles \cup {<<>>} : setTitle(text)
    \/ \E value \in Scopes : setScope(value)
    \/ \E text \in Topics : setTopic(text)

InitForm ==
    /\ InitPage
    /\ responseStatus = 200
    /\ InitBench
    /\ InitViewer(1)
    /\ library = TwoStored
    /\ sent = <<"slideA">>
    /\ unterminated = "none"

NextForm == Form \/ Run \/ List

SpecForm == InitForm /\ [][NextForm]_vars

\* The two parseSlide functions on their own: text blocks, each with the
\* title its first line holds once the ** markers and the label are taken
\* off (empty when nothing is left).
Samples ==
    { [text |-> <<>>, title |-> <<>>],
      [text |-> Str(<<" ", "\n", " ">>), title |-> <<>>],
      [text |-> Str(<<"*", "*">>), title |-> <<>>],
      [text |-> Str(<<"*", "*", "*", "*">>), title |-> <<>>],
      [text |-> Str(<<"T", "i", "t", "l", "e", ":">>), title |-> <<>>],
      [text |-> Str(<<"*", "*", "s", "l", "i", "d", "e", " ", "t", "i", "t", "l", "e", ":",
                      " ", "*", "*", "\n", "x">>),
       title |-> <<>>],
      [text |-> Str(<<"*", "*", "A", "*", "*", "\n", "-", " ", "b">>), title |-> Str(<<"A">>)],
      [text |-> Str(<<"T", "i", "t", "l", "e", ":", " ", "B">>), title |-> Str(<<"B">>)] }

\* parseSlide of the generator page called on the block.
normalizeLive ==
    /\ normalized' = [normalized EXCEPT !.live = <<parseSlide(rawBlock, ordinal)>>]
    /\ UNCHANGED <<rawBlock, ordinal, page, runs, catalogue, exports, sent, unterminated, responseStatus,
                   library, viewer>>

\* parseSlide of the viewer page called on the block.
normalizeView ==
    /\ normalized' = [normalized EXCEPT !.view = <<parseSlideView(rawBlock, ordinal)>>]
    /\ UNCHANGED <<rawBlock, ordinal, page, runs, catalogue, exports, sent, unterminated, responseStatus,
                   library, viewer>>

InitNormalizer ==
    /\ InitPage
    /\ responseStatus = 200
    /\ title = Str(<<"A">>)
    /\ InitViewer(1)
    /\ library = TwoStored
    /\ sent = <<>>
    /\ unterminated = "none"
    /\ rawBlock \in {sample.text : sample \in Samples}
    /\ ordinal \in 0..MaxOrdinal
    /\ normalized = [live |-> <<>>, view |-> <<>>]

NextNormalizer == normalizeLive \/ normalizeView

SpecNormalizer == InitNormalizer /\ [][NextNormalizer]_vars

\* The generator page on a response that does not stay open for ever: the
\* fetch of a run is answered or rejected, and the body, of finitely many
\* bytes, is closed after the last of them or breaks.
Settle ==
    \/ \E r \in DOMAIN runs : fetchResolved(r)
    \/ \E r \in DOMAIN runs : fetchNoBody(r)
    \/ \E r \in DOMAIN runs : fetchRejected(r)
    \/ \E r \in DOMAIN runs : readDone(r)
    \/ \E r \in DOMAIN runs : readFailed(r)

LiveSegments == {"slideA", "empty", "noContent", "bad"}

InitLive ==
    /\ InitPage
    /\ responseStatus = 200
    /\ InitBench
    /\ InitViewer(1)
    /\ library = TwoStored
    /\ sent \in SeqsUpTo(LiveSegments, MaxRecords)
    /\ unterminated \in Tails

NextLive == Run \/ List

SpecLive == InitLive /\ [][NextLive]_vars /\ WF_vars(Settle)

\* Both pages on a stored presentation of any content of at most MaxBlocks
\* blocks: it is opened and exported as text, on the generator page and in
\* the viewer.
Reopen ==
    \/ selectClicked(1)
    \/ selectResolved(1)
    \/ backToList
    \/ downloadAsTXT
    \/ loadResolved(1)
    \/ viewDownloadAsTXT

InitReopen ==
    /\ InitPage
    /\ responseStatus = 200
    /\ InitBench
    /\ title = Str(<<"A">>)
    /\ sent = <<>>
    /\ unterminated = "none"
    /\ \E first \in {jsString(c) : c \in Contents} :
           library = [n \in StoredIds |->
                         IF n = 1 THEN first ELSE jsString(Str(<<"A", "\n", "-", "b">>))]
    /\ InitViewer(1)

NextReopen == Reopen

SpecReopen == InitReopen /\ [][NextReopen]_vars

\* The generator page on an answer of either status, of at most MaxRecords
\* slide records, with or without an unterminated last record.
Statuses == {200, 500}

\* response.ok
ok(code) == code \in 200..299

InitStatus ==
    /\ InitPage
    /\ title = Str(<<"A">>)
    /\ InitBench
    /\ InitViewer(1)
    /\ library = TwoStored
    /\ sent \in SeqsUpTo({"slideA"}, MaxRecords)
    /\ unterminated \in Tails
    /\ responseStatus \in Statuses

NextStatus == Run

SpecStatus == InitStatus /\ [][NextStatus]_vars

(***************************************************************************)
(* What the producer sent, as the properties below refer to it.            *)
(***************************************************************************)
IsPrefix(a, b) == Len(a) <= Len(b) /\ SubSeq(b, 1, Len(a)) = a

InLoop(r) == runs[r].pc = "read"

\* The text of the records named, each with its boundary.
RECURSIVE textOf(_)
textOf(names) ==
    IF names = <<>> THEN <<>>
    ELSE Segment(Head(names)).json \o RecordBoundary \o textOf(Tail(names))

textSent ==
    textOf(sent) \o (IF unterminated = "none" THEN <<>> ELSE Segment(unterminated).json)

\* How many of the records named lie, boundary included, within the first c
\* bytes of the body.
RECURSIVE arrivedCount(_, _)
arrivedCount(names, c) ==
    IF names = <<>> THEN 0
    ELSE LET size == Len(SegmentBytes[Head(names)])
         IN  IF size > c THEN 0 ELSE 1 + arrivedCount(Tail(names), c - size)

\* The records run r has read completely.
arrived(r) == SubSeq(sent, 1, arrivedCount(sent, Len(responseBody) - Len(runs[r].body)))

\* One slide per record that carries one, numbered in order.
RECURSIVE slidesOf(_, _)
slidesOf(names, acc) ==
    IF names = <<>> THEN acc
    ELSE slidesOf(Tail(names),
                  IF Segment(Head(names)).kind = "slide"
                  THEN Append(acc, parseSlide(Segment(Head(names)).text, Len(acc)))
                  ELSE acc)

expectedSlides(names) == slidesOf(names, <<>>)

NoMalformed(names) == \A i \in DOMAIN names : Segment(names[i]).kind # "malformed"

\* The step in which run r leaves its read loop by itself: the stream ended or
\* an exception was thrown while a chunk was handled.
LoopEnds(r) == InLoop(r) /\ runs' = removeAt(runs, r) /\ ~readFailed(r)

\* The first n bytes of the body handled as a single chunk.
singleChunk(n) ==
    pass([pc |-> "read", body |-> responseBody, decoder |-> newDecoder,
          accumulatedData |-> <<>>], SubSeq(responseBody, 1, n), <<>>, 0)

\* Run r is where the loop is after its bytes so far came as a single chunk.
asSingleChunk(r) ==
    LET one == singleChunk(Len(responseBody) - Len(runs[r].body))
    IN  /\ generatedSlides = one.slides
        /\ currentSlideIndex = one.index
        /\ runs[r].accumulatedData = one.accumulatedData
        /\ runs[r].decoder = one.decoder

(***************************************************************************)
(* Properties.                                                             *)
(***************************************************************************)
\* C1 - chunk-boundary independence: however the bytes read so far were cut
\* into chunks, the slide list, the slide counter, the buffer and the decoder
\* are those the loop has after the same bytes in a single chunk; and when
\* the loop ends by itself (stream end, or an exception in a pass) the slide
\* list is the one built from the whole body read as one chunk.
C1_ChunkIndependence ==
    /\ [](\A r \in DOMAIN runs : InLoop(r) => asSingleChunk(r))
    /\ [][\A r \in DOMAIN runs :
              LoopEnds(r) => generatedSlides' = singleChunk(Len(responseBody)).slides]_vars

\* A chunk ended inside a record, after a slide was appended.
C1_Witness ==
    \E r \in DOMAIN runs :
        /\ InLoop(r)
        /\ runs[r].accumulatedData # <<>>
        /\ runs[r].body # <<>>
        /\ generatedSlides # <<>>

\* C2 - a record that cannot be decoded is skipped without aborting the run:
\* whenever the read loop ends by itself, it ends with the success
\* notification and with one slide per well-formed slide record of the
\* stream, in order, those after the bad record included.
C2_BadRecordSkipped ==
    [][\A r \in DOMAIN runs :
           LoopEnds(r) => /\ toast' = "Presentation generated"
                          /\ generatedSlides' = expectedSlides(sent)]_vars

\* C3 - no record is lost, duplicated or reordered: at every point of the
\* read loop the slide list holds exactly one slide per record read so far
\* whose content is non-empty and not the separator token, in stream order;
\* at stream end the records read are all the terminated records sent.
C3_OneSlidePerRecord ==
    \A r \in DOMAIN runs : InLoop(r) => generatedSlides = expectedSlides(arrived(r))

\* The stream was read to its end and gave two different slides.
C3_Witness ==
    \E r \in DOMAIN runs :
        /\ InLoop(r)
        /\ runs[r].body = <<>>
        /\ unterminated = "none"
        /\ Len(generatedSlides) = 2
        /\ generatedSlides[1].title # generatedSlides[2].title

\* C4 - on the generator page the slide at position i has index i, counted
\* from 0, after any stream events and user actions.
C4_IndexIsPosition ==
    \A i \in DOMAIN generatedSlides : generatedSlides[i].index = i - 1

\* A stored presentation was opened and the stream appended a slide to it.
C4_Witness ==
    /\ selectedPresentation = 1
    /\ Len(generatedSlides) > Len(storedSlides(TwoSlides))

\* C5 - a record whose trimmed content is the separator token appends no
\* slide and does not advance the index: the slides and the slide counter
\* count the slide records only, and no slide is made of the token.
C5_SeparatorIsNoSlide ==
    \A r \in DOMAIN runs :
        InLoop(r) =>
            \A seen \in {arrived(r)} :
                LET real == {i \in DOMAIN seen : Segment(seen[i]).kind = "slide"}
                IN  /\ Len(generatedSlides) = Cardinality(real)
                    /\ currentSlideIndex = Cardinality(real)
                    /\ \A i \in DOMAIN generatedSlides :
                           /\ generatedSlides[i].index = i - 1
                           /\ generatedSlides[i].title # SeparatorToken

\* A separator record was read, then a slide record: the slide has index 0.
C5_Witness ==
    \E r \in DOMAIN runs :
        /\ InLoop(r)
        /\ Len(arrived(r)) = 2
        /\ Segment(arrived(r)[1]).kind = "separator"
        /\ Segment(arrived(r)[2]).kind = "slide"
        /\ Len(generatedSlides) = 1
        /\ generatedSlides[1].index = 0

\* C6 - when the stream ends, what is left in the buffer is discarded: the
\* step that ends the loop with a non-empty buffer appends nothing and
\* raises the success notification.
C6_LeftoverDiscarded ==
    [][\A r \in DOMAIN runs :
           (LoopEnds(r) /\ runs[r].body = <<>> /\ runs[r].accumulatedData # <<>>)
               => /\ generatedSlides' = generatedSlides
                  /\ toast' = "Presentation generated"]_vars

\* A run completed on a stream whose last record, complete and well-formed,
\* lacked only its terminator; the list holds the terminated records' slides.
C6_Witness ==
    /\ runs = <<>>
    /\ toast = "Presentation generated"
    /\ unterminated = "slideA"
    /\ generatedSlides # <<>>
    /\ generatedSlides = expectedSlides(sent)

\* C7 - a character whose bytes are split across chunks is decoded as that
\* character: at every point of the read loop the buffer is the decoding of
\* the concatenated bytes read since the last record boundary, and the
\* records read followed by the buffer are the beginning of the text the
\* producer encoded.
C7_SplitCharacter ==
    \A r \in DOMAIN runs :
        InLoop(r) =>
            \A body \in {responseBody} :
                \A n \in {arrivedCount(sent, Len(body) - Len(runs[r].body))} :
                    /\ runs[r].accumulatedData
                           = decode(newDecoder,
                                    SubSeq(body, Len(wire(SubSeq(sent, 1, n))) + 1,
                                           Len(body) - Len(runs[r].body))).out
                    /\ IsPrefix(textOf(SubSeq(sent, 1, n)) \o runs[r].accumulatedData,
                                textSent)

\* The three-byte bullet is in the buffer and bytes are still to come: no
\* chunk so far held more than MaxChunk bytes, so the bullet's bytes came in
\* more than one chunk.
C7_Witness ==
    /\ MaxChunk < Len(utf8(Ord("BULLET")))
    /\ \E r \in DOMAIN runs :
           /\ InLoop(r)
           /\ runs[r].body # <<>>
           /\ \E i \in DOMAIN runs[r].accumulatedData :
                  runs[r].accumulatedData[i] = Ord("BULLET")

\* C8 - round trip in the viewer: the text export of the slides in memory,
\* split on the separator sequence and parsed again, gives the same slides.
C8_RoundTrip ==
    [][download' # download => storedSlidesView(download'.text) = slides]_vars

\* C9 - while a generation is in flight the slide list only grows at its
\* end: the list before a step is a prefix of the list after it.
C9_AppendOnly ==
    [][isGenerating => IsPrefix(generatedSlides, generatedSlides')]_vars

\* C10 - a transport error after k slides: the run that ends its read loop
\* with the error notification, on a stream free of undecodable records,
\* leaves the slide list as it was, which is the slides of the records read
\* so far, and clears the progress flag.
C10_TransportError ==
    [][\A r \in DOMAIN runs :
           (InLoop(r) /\ NoMalformed(sent) /\ runs' = removeAt(runs, r) /\ toast' = "Error")
               => /\ generatedSlides' = generatedSlides
                  /\ generatedSlides' = expectedSlides(arrived(r))
                  /\ ~isGenerating']_vars

\* A run failed after at least one slide and before the last one.
C10_Witness ==
    /\ runs = <<>>
    /\ toast = "Error"
    /\ ~isGenerating
    /\ NoMalformed(sent)
    /\ generatedSlides # <<>>
    /\ Len(generatedSlides) < Len(expectedSlides(sent))

\* C11 - a run that reached its terminal outcome appends no further slide:
\* once isGenerating is back to false no call of handleSubmit is still
\* running, the slide list grows only in a step taken while isGenerating is
\* true by a run inside its read loop, and the step that raises the success
\* notification appends nothing.
C11_NoAppendAfterEnd ==
    /\ [](~isGenerating => runs = <<>>)
    /\ [][Len(generatedSlides') > Len(generatedSlides)
              => isGenerating /\ \E r \in DOMAIN runs : InLoop(r)]_vars
    /\ [][\A r \in DOMAIN runs :
              (InLoop(r) /\ runs' = removeAt(runs, r) /\ toast' = "Presentation generated")
                  => generatedSlides' = generatedSlides]_vars

\* A run ended in failure on an undecodable record after it appended a slide.
C11_Witness ==
    /\ runs = <<>>
    /\ ~isGenerating
    /\ toast = "Error"
    /\ generatedSlides # <<>>
    /\ ~NoMalformed(sent)

\* C12 - cancellation: when the user leaves the deck of a generation in
\* flight ("Back to list") after slides were appended, the slide list keeps
\* those slides and the run stops reading, so that it appends nothing more
\* and is never reported as completed.
C12_Cancellation ==
    [][(isGenerating /\ generatedSlides # <<>> /\ (\E r \in DOMAIN runs : InLoop(r))
            /\ backToList)
           => /\ generatedSlides' = generatedSlides
              /\ \A r \in DOMAIN runs' : runs'[r].pc # "read"]_vars

\* C13 - at most one generation run is active at any time: a call of
\* handleSubmit is in flight exactly while isGenerating is true, there is
\* never a second one beside it, and so the slides appended to the list
\* between two resets are those of one run, read through its own buffer.
C13_SingleRun ==
    /\ Len(runs) <= 1
    /\ isGenerating <=> runs # <<>>

\* A run is streaming, slides are on screen, and the Generate button does
\* not start a second run.
C13_Witness ==
    /\ Len(runs) = 1
    /\ InLoop(1)
    /\ runs[1].body # <<>>
    /\ generatedSlides # <<>>
    /\ ~ENABLED handleSubmit

\* C14 - bullets are canonical on the live streaming path: in every slide of
\* the generator page each content line that begins with a bullet glyph
\* (*, - or the bullet character) begins with the bullet character followed
\* by a space.
C14_BulletsCanonical ==
    \A i \in DOMAIN generatedSlides :
        LET lines == split(generatedSlides[i].content, NL)
        IN  \A k \in DOMAIN lines :
                (lines[k] # <<>> /\ Head(lines[k]) \in {Ord("*"), Ord("-"), Ord("BULLET")})
                    => startsWith(lines[k], <<Ord("BULLET"), Ord(" ")>>)

\* C15 - the content of a slide is made of all the lines after the title
\* line, blank lines included, in order: each slide of the viewer holds the
\* lines that follow the first line of its block of the stored content,
\* with their bullets made canonical, joined by newlines.
C15_BodyLinesKept ==
    (presentation # 0 /\ ~falsy(library[presentation])) =>
        LET blocks == keptBlocks(split(library[presentation].s, SeparatorSequence))
        IN  /\ Len(slides) = Len(blocks)
            /\ \A i \in DOMAIN blocks :
                   LET body == Tail(split(trim(blocks[i]), NL))
                   IN  slides[i].content = join([k \in DOMAIN body |-> bullet(body[k])], NL)

\* C16 - every slide has a non-empty title: both parseSlide functions give
\* the title "Slide {index+1}" when the first non-blank line, its ** markers
\* and its label taken off and trimmed, is empty or missing, and that line's
\* text otherwise; a block with nothing but white space gives empty content,
\* and the empty block at index 4 the title "Slide 5".
C16_DefaultTitle ==
    \A made \in {normalized.live, normalized.view} :
        made # <<>> =>
            LET sample == CHOOSE x \in Samples : x.text = rawBlock
                default == SlideWord \o <<Ord("1") + ordinal>>
            IN  /\ made[1].title # <<>>
                /\ made[1].index = ordinal
                /\ made[1].title = IF sample.title = <<>> THEN default ELSE sample.title
                /\ trim(rawBlock) = <<>> => made[1].content = <<>>
                /\ (rawBlock = <<>> /\ ordinal = 4)
                       => made[1].title = Str(<<"S", "l", "i", "d", "e", " ">>) \o <<53>>

\* Both functions were called on the empty block at index 4.
C16_Witness ==
    /\ rawBlock = <<>>
    /\ ordinal = 4
    /\ normalized.live # <<>>
    /\ normalized.view # <<>>
    /\ normalized.live[1].content = <<>>

\* C18 - a generation request carries a topic if and only if its scope is
\* "Specific Topic": sent with the scope "Entire Document" its topic is
\* null, and sent with the scope "Specific Topic" its topic is a non-empty
\* text.
C18_TopicIffScope ==
    \A r \in DOMAIN runs :
        /\ runs[r].request.scope = "Entire Document" => runs[r].request.topic = jsNull
        /\ runs[r].request.scope = "Specific Topic"
               => /\ runs[r].request.topic.t = "string"
                  /\ runs[r].request.topic.s # <<>>

\* C17 - while a generation run is in progress no export can be triggered:
\* a text file is saved, or a PPT download requested, only in a step taken
\* with isGenerating false and no call of handleSubmit in flight, that is,
\* over a slide list that no read loop is appending to.
C17_NoExportWhileGenerating ==
    [][(exported' # exported \/ pptRequests' > pptRequests)
           => (~isGenerating /\ runs = <<>>)]_vars

\* A run is reading with a stored presentation selected and slides shown,
\* and neither export button acts.
C17_Witness ==
    /\ isGenerating
    /\ \E r \in DOMAIN runs : InLoop(r)
    /\ selectedPresentation # 0
    /\ generatedSlides # <<>>
    /\ ~ENABLED downloadAsTXT
    /\ ~ENABLED downloadAsPPT

\* The text export saves the N blocks of the slides in memory.
exportSaves ==
    /\ downloadAsTXT
    /\ exported'.saved
    /\ exported'.text = exportText(generatedSlides)

\* C20 - after a generation run has completed with N >= 1 slides in memory,
\* invoking the text export produces the text of those N slides: with the
\* success notification on screen, no run in progress and slides in the
\* list, the Export TXT button saves that text.
C20_ExportAfterRun ==
    (toast = "Presentation generated" /\ ~isGenerating /\ generatedSlides # <<>>)
        => ENABLED exportSaves

\* The blocks each stored content was made of.
blocksOf ==
    [c \in Contents |->
        CHOOSE blocks \in SeqsUpTo(Blocks, MaxBlocks) : join(blocks, SeparatorSequence) = c]

\* The blocks that hold a slide, each with the title on its first line.
SlideBlocks ==
    { [text |-> Str(<<"*", "*", "A", "*", "*", "\n", "-", " ", "b">>), title |-> Str(<<"A">>)],
      [text |-> Str(<<"T", "i", "t", "l", "e", ":", " ", "B", "\n", "c", "\n", "\n", "*", "d">>),
       title |-> Str(<<"B">>)] }

holdsSlide(block) == \E x \in SlideBlocks : x.text = block

\* C19 - re-hydration: the slides the viewer loads from a stored content are
\* one per block that is neither blank nor the bare separator token, in
\* stored order, each with the title of its block and with the index of its
\* position among the blocks kept.
C19_Rehydration ==
    (presentation = 1 /\ ~falsy(library[1]) /\ library[1].s \in Contents) =>
        LET kept == SelectSeq(blocksOf[library[1].s], holdsSlide)
        IN  /\ Len(slides) = Len(kept)
            /\ \A i \in DOMAIN kept :
                   /\ slides[i].index = i - 1
                   /\ slides[i].title = (CHOOSE x \in SlideBlocks : x.text = kept[i]).title

\* A content whose first block is the bare separator token and whose second
\* block holds a slide was loaded: the slide has index 0.
C19_Witness ==
    /\ presentation = 1
    /\ ~falsy(library[1])
    /\ library[1].s \in Contents
    /\ Len(blocksOf[library[1].s]) = 2
    /\ blocksOf[library[1].s][1] = SeparatorToken
    /\ holdsSlide(blocksOf[library[1].s][2])
    /\ Len(slides) = 1
    /\ slides[1].index = 0

\* C21 - every run that starts reading a response body ends with exactly
\* one terminal notification: the step in which a run leaves its read loop
\* raises the success notification if it is the stream's end and the error
\* notification otherwise, no other step of the page raises either of them
\* while the run goes on, and a run inside its read loop does end.
C21_OneTerminalNotification ==
    /\ [][\A r \in DOMAIN runs :
              (InLoop(r) /\ runs' = removeAt(runs, r))
                  => /\ toast' \in {"Presentation generated", "Error"}
                     /\ toast' = "Presentation generated" <=> readDone(r)
                     /\ toast' = "Error" <=> ~readDone(r)]_vars
    /\ [][(Len(runs') >= Len(runs) /\ toast' # toast)
              => toast' \notin {"Presentation generated", "Error"}]_vars
    /\ ((\E r \in DOMAIN runs : InLoop(r)) ~> (runs = <<>>))

\* A run read its stream to the end: the success notification is up, the
\* slides are on screen and the list of presentations is being asked for.
C21_Witness ==
    /\ runs = <<>>
    /\ ~isGenerating
    /\ toast = "Presentation generated"
    /\ generatedSlides # <<>>
    /\ loadingPresentations

\* C22 - the progress flag: isGenerating is true for as long as a call of
\* handleSubmit is in flight, every step in which a call returns (the
\* stream's end, a thrown error, a response without body) leaves it false,
\* and whenever it is true it is reset to false later on.
C22_ProgressFlag ==
    /\ [](runs # <<>> => isGenerating)
    /\ [][\A r \in DOMAIN runs : runs' = removeAt(runs, r) => ~isGenerating']_vars
    /\ (isGenerating ~> ~isGenerating)

\* A run ended in an error before any slide: the flag is down again.
C22_Witness ==
    /\ runs = <<>>
    /\ toast = "Error"
    /\ generatedSlides = <<>>
    /\ ~isGenerating

\* C23 - handleSubmit with a blank title, empty or of white space only,
\* sends no request and leaves isGenerating, the slide list and
\* currentSlideIndex as they are; it only raises "Title required".
C23_BlankTitle ==
    [][(handleSubmit /\ trim(title) = <<>>)
           => /\ toast' = "Title required"
              /\ runs' = runs
              /\ isGenerating' = isGenerating
              /\ generatedSlides' = generatedSlides
              /\ currentSlideIndex' = currentSlideIndex]_vars

\* Generate was clicked with a blank title over the slides of an earlier run.
C23_Witness ==
    /\ trim(title) = <<>>
    /\ toast = "Title required"
    /\ generatedSlides # <<>>
    /\ currentSlideIndex > 0
    /\ runs = <<>>

\* C24 - handleSubmit reports "Presentation generated" only for a response
\* with a success status: the step in which a run raises the success
\* notification is the end of a response whose status is one of 200..299.
C24_SuccessStatusOnly ==
    [][\A r \in DOMAIN runs :
           (runs' = removeAt(runs, r) /\ toast' = "Presentation generated")
               => ok(responseStatus)]_vars

\* C25 - on the generator page, whenever a stored presentation is selected
\* the slide list is the slides parsed from its content (none when it has
\* no content), so that the text export and the PPT export by id refer to
\* the same presentation.
C25_SelectionMatchesSlides ==
    selectedPresentation # 0 =>
        generatedSlides = IF falsy(Stored(selectedPresentation).content) THEN <<>>
                          ELSE storedSlides(Stored(selectedPresentation).content.s)

\* C26 - in the viewer, whenever the slide list is not empty currentSlide
\* designates one of its slides, after any key events, clicks on Previous,
\* Next and the dots, and loads for a changed id.
C26_CurrentSlideInRange ==
    slides # <<>> => currentSlide \in 0..(Len(slides) - 1)

\* C27 - during a generation run, once a slide has been appended,
\* currentSlideIndex designates a slide of the list, the one appended last,
\* which is the slide the page highlights.
C27_IndexDesignatesSlide ==
    (isGenerating /\ generatedSlides # <<>>)
        => /\ currentSlideIndex < Len(generatedSlides)
           /\ currentSlideIndex = Len(generatedSlides) - 1

\* The slides of both lists have the same number, and each one the index and
\* the content of the slide at its position in the other.
sameBodies(again, deck) ==
    /\ Len(again) = Len(deck)
    /\ \A i \in DOMAIN deck : /\ again[i].index = deck[i].index
                               /\ again[i].content = deck[i].content

\* No content line of a slide of the deck is the bare separator token.
noTokenLine(deck) ==
    \A i \in DOMAIN deck :
        \A line \in {split(deck[i].content, NL)[k] : k \in DOMAIN split(deck[i].content, NL)} :
            line # SeparatorToken

\* C28 - weak round trip: the text a page exports for its N slides, none of
\* which has the bare separator token as a content line, split on the
\* separator sequence and parsed again by the page, gives N slides with the
\* same indexes and the same contents.
C28_WeakRoundTrip ==
    /\ [][(download' # download /\ noTokenLine(slides))
              => sameBodies(storedSlidesView(download'.text), slides)]_vars
    /\ [][(exported' # exported /\ noTokenLine(generatedSlides))
              => sameBodies(storedSlides(exported'.text), generatedSlides)]_vars

\* Both pages exported a presentation of two slides, the second of which
\* holds a bullet line.
C28_Witness ==
    /\ exported.saved
    /\ download.saved
    /\ exported.text # <<>>
    /\ Len(slides) = 2
    /\ Len(generatedSlides) = 2
    /\ slides[2].content # <<>>
    /\ download.text = exportText(slides)

\* The records whose last byte is among the next n bytes run r reads.
completedBy(r, n) ==
    LET read == Len(responseBody) - Len(runs[r].body)
    IN  SubSeq(sent, arrivedCount(sent, read) + 1, arrivedCount(sent, read + n))

\* C29 - a record that decodes to an object whose content is missing or is
\* the empty string is skipped silently: the pass of the read loop that
\* completes such records only appends no slide, leaves the slide counter
\* and the notification as they are, and the run goes on reading with
\* isGenerating true.
C29_EmptyRecordSkipped ==
    [][\A r \in DOMAIN runs :
           \A n \in chunkSizes(Len(runs[r].body)) :
               (/\ InLoop(r)
                /\ readChunk(r, n)
                /\ completedBy(r, n) # <<>>
                /\ \A i \in DOMAIN completedBy(r, n) :
                       Segment(completedBy(r, n)[i]).kind = "empty")
                   => /\ generatedSlides' = generatedSlides
                      /\ currentSlideIndex' = currentSlideIndex
                      /\ toast' = toast
                      /\ isGenerating'
                      /\ Len(runs') = Len(runs)
                      /\ runs'[r].pc = "read"]_vars

\* A record without content was read, then a slide record: the slide is the
\* first of the list, and the run is still reading.
C29_Witness ==
    \E r \in DOMAIN runs :
        /\ InLoop(r)
        /\ arrived(r) = <<"noContent", "slideA">>
        /\ Len(generatedSlides) = 1
        /\ generatedSlides[1].index = 0
        /\ currentSlideIndex = 1
        /\ toast = ""

\* C30 - the two normalizers agree: once parseSlide of the generator page and
\* parseSlide of the viewer page were both called on a block and an index,
\* they returned the same title, the same content and the same index.
C30_NormalizersAgree ==
    (normalized.live # <<>> /\ normalized.view # <<>>)
        => /\ normalized.live[1].title = normalized.view[1].title
           /\ normalized.live[1].content = normalized.view[1].content
           /\ normalized.live[1].index = normalized.view[1].index

====
